---- MODULE Spec2Model ----
(***************************************************************************)
(* Model of the room coordinator of LiarAmongUs (src/app/main.py).         *)
(*                                                                         *)
(* The server is one asyncio event loop: a handler runs without            *)
(* interruption between two awaits.  Every handler of main.py changes the  *)
(* module-level dictionaries before its first send, so each action below   *)
(* is the handler's whole synchronous mutation, together with the kind of  *)
(* message it then fans out (recorded in `last`).                          *)
(***************************************************************************)
EXTENDS Integers, Sequences, FiniteSets, TLC

\* ------------------------------------------------------------------ bounds
PoolSize == 3      \* number of prompts loaded into questions_pool
MaxSteps == 7      \* handlers run in one explored behaviour
MaxSocks == 1      \* websockets open or left in a room's list at one time
MaxHandlers == 3   \* handlers run in one behaviour with suspended broadcasts

Rooms == {1}                       \* room ids a client names
Names == {"a", "b"}                \* display names a client sends
Texts == {"yes"}                   \* answer texts a client sends
None == "<None>"                   \* Python's None (the default of dict.get)

\* class State(Enum)
State == {"ROOM", "ANSWER", "DISCUSSION", "VOTING", "VOTING_RESULTS",
          "VOTE_AGAIN", "POINTS"}

\* ------------------------------------------------------------------ state
VARIABLES
    rooms,                  \* room_id -> player name -> points
    rooms_state,            \* room_id -> State
    connections,            \* room_id -> list of websockets
    used_questions,         \* room_id -> list of used indexes
    current_questions,      \* room_id -> [real_question, fake_question]
    current_answers,        \* room_id -> {player name -> answer}
    current_votes,          \* room_id -> {voter name -> voted name}
    current_voted_player,   \* room_id -> voted player
    current_vote_counts,    \* room_id -> {player name -> number of votes}
    current_valid_voting,   \* room_id -> BOOLEAN
    current_liar,           \* room_id -> liar
    current_diff_points,    \* room_id -> {player -> points diff}
    detached,               \* room_id -> handlers whose list reset dropped
    last,                   \* the handler that ran last and what it sent
    steps,                  \* handlers run so far
    snapshot,               \* the "state" message the last handler sent, if any
    fanouts,                \* the broadcasts whose loop has not reached its end
    received                \* room_id -> per websocket, the broadcasts it received

dicts == <<rooms, rooms_state, connections, used_questions, current_questions,
           current_answers, current_votes, current_voted_player,
           current_vote_counts, current_valid_voting, current_liar,
           current_diff_points>>
vars == <<rooms, rooms_state, connections, used_questions, current_questions,
          current_answers, current_votes, current_voted_player,
          current_vote_counts, current_valid_voting, current_liar,
          current_diff_points, detached, last, steps, snapshot, fanouts, received>>

\* ---------------------------------------------------------- dict helpers
\* {} of Python
EmptyDict == [k \in {} |-> 0]

\* d.get(k, default)
Get(d, k, default) == IF k \in DOMAIN d THEN d[k] ELSE default

\* d[k] = v
Put(d, k, v) == [x \in (DOMAIN d) \cup {k} |-> IF x = k THEN v ELSE d[x]]

\* d.pop(k, None) / del d[k]
Pop(d, k) == [x \in (DOMAIN d) \ {k} |-> d[x]]

\* len(d)
DictLen(d) == Cardinality(DOMAIN d)

\* seeded fault: the websocket is left in the list
RemoveAtKeepsAll(s, i) == s

\* the list without its i-th element (list.remove of a websocket object)
RemoveAt(s, i) == [j \in 1..(Len(s) - 1) |-> IF j < i THEN s[j] ELSE s[j + 1]]

\* questions_pool: the stripped non-empty lines of the pool file
questions_pool == [i \in 0..(PoolSize - 1) |-> <<"prompt", i>>]

\* ------------------------------------------------------- pure helpers
\* what a handler did: the request or message it served, its room (0: none),
\* the message it fanned out to the room and what it returned or replied
Ran(op, r, bcast, resp) == [op |-> op, room |-> r, bcast |-> bcast, resp |-> resp]

\* rooms.get(room_id, {})
PlayersOf(r) == Get(rooms, r, EmptyDict)

\* get_connection_list: creates the room's list when it has none
get_connection_list(conns, r) == IF r \in DOMAIN conns THEN conns ELSE Put(conns, r, <<>>)

\* the handlers of room r that can still receive a message from their client:
\* <<"c", i>> is the i-th websocket of the room's list, <<"d", i>> the i-th
\* handler whose list was dropped by reset_app
Senders(r) ==
    {<<"c", i>> : i \in {j \in 1..Len(Get(connections, r, <<>>)) : connections[r][j].open}}
    \cup {<<"d", i>> : i \in 1..Len(detached[r])}

\* the name the handler got from its query string (player_name)
SenderName(r, s) == IF s[1] = "c" THEN connections[r][s[2]].name ELSE detached[r][s[2]]

\* an exception other than WebSocketDisconnect ends the handler: its websocket
\* is never removed from the list it was appended to
CrashedConnections(conns, r, s) ==
    IF s[1] = "c" THEN [conns EXCEPT ![r][s[2]].open = FALSE] ELSE conns

CrashedDetached(r, s) ==
    IF s[1] = "d" THEN [detached EXCEPT ![r] = RemoveAt(detached[r], s[2])] ELSE detached

\* ------------------------------------------------------- broadcast_next_round
\* seeded fault: the used indexes are not filtered out
AvailableIndexesIgnoringUsed(used) == 0..(PoolSize - 1)

\* available_indexes = [i for i in range(total_questions) if i not in used]
AvailableIndexes(used) ==
    {i \in 0..(PoolSize - 1) : \A k \in 1..Len(used) : used[k] # i}

\* seeded fault: one player is enough
NotEnoughPlayersOffByOne(players) == Cardinality(players) < 1

\* len(players) < 2
NotEnoughPlayers(players) == Cardinality(players) < 2

\* len(available_indexes) < 2
NotEnoughQuestions(avail) == Cardinality(avail) < 2

\* used + [same_idx, odd_idx]
UsedAfter(used, same_idx, odd_idx) == used \o <<same_idx, odd_idx>>

\* the pairs random.sample(available_indexes, 2) can return
SamplePairs(avail) == {p \in avail \X avail : p[1] # p[2]}

broadcast_next_round(r, op) ==
    LET players == DOMAIN PlayersOf(r)
        used    == Get(used_questions, r, <<>>)
        avail   == AvailableIndexes(used)
    IN  /\ current_answers' = Pop(current_answers, r)
        /\ current_votes' = Pop(current_votes, r)
        /\ UNCHANGED <<rooms, current_voted_player, current_vote_counts,
                       current_valid_voting, current_diff_points, detached>>
        /\ IF NotEnoughPlayers(players)
           THEN /\ last' = Ran(op, r, "none", "Not enough players")
                /\ UNCHANGED <<rooms_state, connections, used_questions,
                               current_questions, current_liar>>
           ELSE IF NotEnoughQuestions(avail)
           THEN /\ last' = Ran(op, r, "none", "Not enough unused questions")
                /\ UNCHANGED <<rooms_state, connections, used_questions,
                               current_questions, current_liar>>
           ELSE \E pair \in SamplePairs(avail), odd_player \in players :
                /\ rooms_state' = Put(rooms_state, r, "ANSWER")
                /\ current_questions' = Put(current_questions, r,
                       [real_question |-> questions_pool[pair[1]],
                        fake_question |-> questions_pool[pair[2]]])
                /\ current_liar' = Put(current_liar, r, odd_player)
                /\ used_questions' = Put(used_questions, r, UsedAfter(used, pair[1], pair[2]))
                /\ connections' = get_connection_list(connections, r)
                /\ last' = Ran(op, r, "ping_start_game", "Game started.")

\* POST /start_game/{room_id}
start_game(r) == broadcast_next_round(r, "start_game")

\* POST /join
join_room(r, n) ==
    IF r \in DOMAIN rooms /\ n \in DOMAIN rooms[r]
    THEN /\ last' = Ran("join", r, "none", "Name already taken")
         /\ UNCHANGED <<dicts, detached>>
    ELSE IF r \in DOMAIN rooms_state /\ rooms_state[r] # "ROOM"
    THEN /\ last' = Ran("join", r, "none", "Game already started")
         /\ UNCHANGED <<dicts, detached>>
    ELSE /\ rooms' = Put(rooms, r, Put(PlayersOf(r), n, 0))
         /\ rooms_state' = Put(rooms_state, r, "ROOM")
         \* the task created for broadcast_player_list
         /\ connections' = get_connection_list(connections, r)
         /\ last' = Ran("join", r, "player_list", "room")
         /\ UNCHANGED <<used_questions, current_questions, current_answers,
                        current_votes, current_voted_player, current_vote_counts,
                        current_valid_voting, current_liar, current_diff_points,
                        detached>>

\* ------------------------------------------------------- submit_answer
\* len(current_answers[room_id]) == len(rooms.get(room_id, {}))
AllAnswered(answers, players) == DictLen(answers) = DictLen(players)

\* the submit_answer branch, with broadcast_answers_submitted
submit_answer(r, s, n, t) ==
    LET answers == Put(Get(current_answers, r, EmptyDict), n, t)
    IN  /\ current_answers' = Put(current_answers, r, answers)
        /\ UNCHANGED <<rooms, used_questions, current_questions, current_votes,
                       current_voted_player, current_vote_counts, current_valid_voting,
                       current_liar, current_diff_points>>
        /\ IF AllAnswered(answers, PlayersOf(r))
           THEN /\ rooms_state' = Put(rooms_state, r, "DISCUSSION")
                /\ IF r \in DOMAIN current_questions
                   THEN /\ connections' = get_connection_list(connections, r)
                        /\ last' = Ran("submit_answer", r, "answers_submitted", "none")
                        /\ UNCHANGED detached
                   ELSE \* current_questions[room_id] raises KeyError
                        /\ connections' = CrashedConnections(connections, r, s)
                        /\ detached' = CrashedDetached(r, s)
                        /\ last' = Ran("submit_answer", r, "none", "KeyError")
           ELSE /\ last' = Ran("submit_answer", r, "none", "none")
                /\ UNCHANGED <<rooms_state, connections, detached>>

\* the pong_start_game branch: a reply to the sender only
pong_start_game(r, s) ==
    /\ UNCHANGED <<rooms, rooms_state, used_questions, current_questions, current_answers,
                   current_votes, current_voted_player, current_vote_counts,
                   current_valid_voting, current_liar, current_diff_points>>
    /\ IF r \in DOMAIN current_questions
       THEN /\ last' = Ran("pong_start_game", r, "none", "start_game")
            /\ UNCHANGED <<connections, detached>>
       ELSE /\ connections' = CrashedConnections(connections, r, s)
            /\ detached' = CrashedDetached(r, s)
            /\ last' = Ran("pong_start_game", r, "none", "KeyError")

\* ------------------------------------------------------- broadcast_start_voting
\* seeded fault: the votes of the tied ballot are kept
VotesKept(votes, r) == votes

\* current_votes.pop(room_id, None)
VotesCleared(votes, r) == Pop(votes, r)

\* the start_voting_request and vote_again_request branches
broadcast_start_voting(r, op) ==
    /\ rooms_state' = Put(rooms_state, r, "VOTING")
    /\ current_votes' = VotesCleared(current_votes, r)
    /\ connections' = get_connection_list(connections, r)
    /\ last' = Ran(op, r, "start_voting", "none")
    /\ UNCHANGED <<rooms, used_questions, current_questions, current_answers,
                   current_voted_player, current_vote_counts, current_valid_voting,
                   current_liar, current_diff_points, detached>>

\* ------------------------------------------------------- broadcast_votes_submited
\* vote_counts[voted_player] += 1 for every vote
VoteCounts(room_votes) ==
    [p \in {room_votes[v] : v \in DOMAIN room_votes} |->
        Cardinality({v \in DOMAIN room_votes : room_votes[v] = p})]

\* max(vote_counts.values(), default=0)
MaxVotes(vote_counts) ==
    IF DOMAIN vote_counts = {} THEN 0
    ELSE CHOOSE m \in {vote_counts[p] : p \in DOMAIN vote_counts} :
             \A p \in DOMAIN vote_counts : vote_counts[p] <= m

\* [player for player, votes in vote_counts.items() if votes == max_votes]
TopVotedPlayers(vote_counts) ==
    {p \in DOMAIN vote_counts : vote_counts[p] = MaxVotes(vote_counts)}

\* seeded fault: a tie is broken instead of being invalid
ValidVotingAnyTop(top_voted_players) == Cardinality(top_voted_players) >= 1

\* valid_voting = len(top_voted_players) == 1
ValidVoting(top_voted_players) == Cardinality(top_voted_players) = 1

\* len(current_votes[room_id]) == len(rooms.get(room_id, {}))
AllVoted(votes, players) == DictLen(votes) = DictLen(players)

\* the submit_vote branch, with broadcast_votes_submited
submit_vote(r, s, voter, target) ==
    LET votes  == Put(Get(current_votes, r, EmptyDict), voter, target)
        counts == VoteCounts(votes)
        top    == TopVotedPlayers(counts)
    IN  /\ current_votes' = Put(current_votes, r, votes)
        /\ UNCHANGED <<rooms, used_questions, current_questions, current_answers,
                       current_liar, current_diff_points, detached>>
        /\ IF AllVoted(votes, PlayersOf(r))
           THEN /\ current_vote_counts' = Put(current_vote_counts, r, counts)
                /\ current_valid_voting' = Put(current_valid_voting, r, ValidVoting(top))
                /\ IF ValidVoting(top)
                   THEN /\ rooms_state' = Put(rooms_state, r, "VOTING_RESULTS")
                        /\ current_voted_player' =
                               Put(current_voted_player, r, CHOOSE p \in top : TRUE)
                   ELSE /\ rooms_state' = Put(rooms_state, r, "VOTE_AGAIN")
                        /\ UNCHANGED current_voted_player
                /\ connections' = get_connection_list(connections, r)
                /\ last' = Ran("submit_vote", r, "votes_submitted", "none")
           ELSE /\ last' = Ran("submit_vote", r, "none", "none")
                /\ UNCHANGED <<rooms_state, connections, current_voted_player,
                               current_vote_counts, current_valid_voting>>

\* ------------------------------------------------------- broadcast_show_points
\* seeded fault: the comparison is inverted
LiarBonusWhenCaught(points, liar, voted) ==
    IF voted = liar THEN Put(points, liar, Get(points, liar, 0) + 3) ELSE points

\* the liar's +3 when the voted player is not the liar
LiarBonus(points, liar, voted) ==
    IF voted # liar THEN Put(points, liar, Get(points, liar, 0) + 3) ELSE points

\* seeded fault: the liar is not skipped
VoterBonusForLiarToo(points, liar, votes) ==
    [p \in DOMAIN points |->
        IF Get(votes, p, None) = liar THEN points[p] + 1 ELSE points[p]]

\* +1 for every player but the liar whose own vote names the liar
VoterBonus(points, liar, votes) ==
    [p \in DOMAIN points |->
        IF p # liar /\ Get(votes, p, None) = liar THEN points[p] + 1 ELSE points[p]]

\* points.get(player, 0) - prev_points.get(player, 0) over both key sets
DiffPoints(prev_points, points) ==
    [p \in (DOMAIN prev_points) \cup (DOMAIN points) |->
        Get(points, p, 0) - Get(prev_points, p, 0)]

\* rooms[room_id] after the two scoring rules
PointsAfter(prev_points, liar, voted, votes) ==
    VoterBonus(LiarBonus(prev_points, liar, voted), liar, votes)

\* the show_points_request branch
broadcast_show_points(r, s) ==
    LET liar        == Get(current_liar, r, None)
        voted       == Get(current_voted_player, r, None)
        votes       == Get(current_votes, r, EmptyDict)
        prev_points == PlayersOf(r)
        points      == PointsAfter(prev_points, liar, voted, votes)
    IN  /\ rooms_state' = Put(rooms_state, r, "POINTS")
        /\ UNCHANGED <<used_questions, current_questions, current_answers, current_votes,
                       current_voted_player, current_vote_counts, current_valid_voting,
                       current_liar>>
        /\ IF voted # liar /\ r \notin DOMAIN rooms
           THEN \* rooms[room_id] raises KeyError
                /\ connections' = CrashedConnections(connections, r, s)
                /\ detached' = CrashedDetached(r, s)
                /\ last' = Ran("show_points_request", r, "none", "KeyError")
                /\ UNCHANGED <<rooms, current_diff_points>>
           ELSE /\ rooms' = IF r \in DOMAIN rooms THEN Put(rooms, r, points) ELSE rooms
                /\ current_diff_points' =
                       Put(current_diff_points, r, DiffPoints(prev_points, points))
                /\ connections' = get_connection_list(connections, r)
                /\ last' = Ran("show_points_request", r, "show_points", "none")
                /\ UNCHANGED detached

\* ------------------------------------------------------- websocket_endpoint
\* the names of the list's websockets whose handler is still running
OpenNames(conn_list) ==
    LET OpenOnly(e) == e.open
        open == SelectSeq(conn_list, OpenOnly)
    IN  [i \in 1..Len(open) |-> open[i].name]

\* data.update(other)
Update(d, other) ==
    [k \in (DOMAIN d) \cup (DOMAIN other) |-> IF k \in DOMAIN other THEN other[k] ELSE d[k]]

\* no "state" message
NoSnapshot == EmptyDict

\* seeded fault: the tally is attached in every state
SnapshotTallyAlways(r, player_name) ==
    LET liar == Get(current_liar, r, None)
    IN  [action |-> "state",
         state |-> Get(rooms_state, r, None),
         players |-> DOMAIN PlayersOf(r),
         your_question |-> IF player_name = liar
                           THEN current_questions[r].fake_question
                           ELSE current_questions[r].real_question,
         already_answered |-> player_name \in DOMAIN Get(current_answers, r, EmptyDict),
         your_answer |-> Get(Get(current_answers, r, EmptyDict), player_name, ""),
         real_question |-> Get(Get(current_questions, r, EmptyDict), "real_question", ""),
         already_voted |-> player_name \in DOMAIN Get(current_votes, r, EmptyDict),
         your_vote |-> Get(Get(current_votes, r, EmptyDict), player_name, ""),
         votes_count |-> Get(current_vote_counts, r, EmptyDict),
         valid_voting |-> Get(current_valid_voting, r, FALSE)]

\* the "state" message built for player_name: the dict `data` of the else branch
Snapshot(r, player_name) ==
    LET players          == DOMAIN PlayersOf(r)
        your_question    == IF player_name = Get(current_liar, r, None)
                            THEN current_questions[r].fake_question
                            ELSE current_questions[r].real_question
        already_answered == player_name \in DOMAIN Get(current_answers, r, EmptyDict)
        answer           == Get(Get(current_answers, r, EmptyDict), player_name, "")
        real_question    == Get(Get(current_questions, r, EmptyDict), "real_question", "")
        already_voted    == player_name \in DOMAIN Get(current_votes, r, EmptyDict)
        vote             == Get(Get(current_votes, r, EmptyDict), player_name, "")
        current_state    == Get(rooms_state, r, None)
        data   == [action |-> "state",
                   state |-> current_state,
                   players |-> players,
                   your_question |-> your_question,
                   already_answered |-> already_answered,
                   your_answer |-> answer,
                   real_question |-> real_question,
                   already_voted |-> already_voted,
                   your_vote |-> vote]
        tally  == IF current_state \in {"VOTING_RESULTS", "VOTE_AGAIN", "POINTS"}
                  THEN Update(data, [votes_count |-> Get(current_vote_counts, r, EmptyDict),
                                     valid_voting |-> Get(current_valid_voting, r, FALSE)])
                  ELSE data
    IN  IF current_state = "POINTS"
        THEN Update(tally, [points |-> PlayersOf(r),
                            liar |-> Get(current_liar, r, None),
                            diff |-> Get(current_diff_points, r, EmptyDict)])
        ELSE tally

\* the connect part: accept, append, then join-or-resync
websocket_connect(r, n) ==
    LET appended == Put(connections, r,
                        Append(Get(connections, r, <<>>), [name |-> n, open |-> TRUE]))
        died     == Put(connections, r,
                        Append(Get(connections, r, <<>>), [name |-> n, open |-> FALSE]))
    IN  /\ Len(Get(connections, r, <<>>)) + Len(detached[r]) < MaxSocks
        /\ UNCHANGED <<rooms_state, used_questions, current_questions, current_answers,
                       current_votes, current_voted_player, current_vote_counts,
                       current_valid_voting, current_liar, current_diff_points,
                       detached>>
        /\ IF Get(rooms_state, r, None) = "ROOM"
           THEN /\ rooms' = Put(rooms, r, Put(rooms[r], n, 0))
                /\ connections' = appended
                /\ last' = Ran("connect", r, "player_list", "none")
                /\ snapshot' = NoSnapshot
           ELSE IF r \notin DOMAIN current_questions
           THEN \* current_questions[room_id] raises KeyError
                /\ connections' = died
                /\ last' = Ran("connect", r, "none", "KeyError")
                /\ snapshot' = NoSnapshot
                /\ UNCHANGED rooms
           ELSE /\ connections' = appended
                /\ last' = Ran("connect", r, "none", "state")
                /\ snapshot' = Snapshot(r, n)
                /\ UNCHANGED rooms

\* except WebSocketDisconnect
websocket_disconnect(r, s) ==
    LET player_name == SenderName(r, s)
        removed == IF s[1] = "c"
                   THEN [connections EXCEPT ![r] = RemoveAt(@, s[2])]
                   ELSE connections
    IN  /\ detached' = CrashedDetached(r, s)
        /\ UNCHANGED <<rooms_state, used_questions, current_questions, current_answers,
                       current_votes, current_voted_player, current_vote_counts,
                       current_valid_voting, current_liar, current_diff_points>>
        /\ IF Get(rooms_state, r, None) = "ROOM"
           THEN /\ rooms' = IF r \in DOMAIN rooms /\ player_name \in DOMAIN rooms[r]
                            THEN Put(rooms, r, Pop(rooms[r], player_name))
                            ELSE rooms
                /\ connections' = get_connection_list(removed, r)
                /\ last' = Ran("disconnect", r, "player_list", "none")
           ELSE /\ connections' = removed
                /\ last' = Ran("disconnect", r, "none", "none")
                /\ UNCHANGED rooms

\* GET /reset
reset_app ==
    /\ rooms' = EmptyDict
    /\ rooms_state' = EmptyDict
    /\ connections' = EmptyDict
    /\ used_questions' = EmptyDict
    /\ current_questions' = EmptyDict
    /\ current_answers' = EmptyDict
    /\ current_votes' = EmptyDict
    /\ current_voted_player' = EmptyDict
    /\ current_vote_counts' = EmptyDict
    /\ current_valid_voting' = EmptyDict
    /\ current_liar' = EmptyDict
    /\ current_diff_points' = EmptyDict
    \* the handlers keep running on the list object they hold
    /\ detached' = [r \in Rooms |->
                       detached[r] \o OpenNames(Get(connections, r, <<>>))]
    /\ last' = Ran("reset", 0, "redirect", "Reset Success")

Init ==
    /\ rooms = EmptyDict
    /\ rooms_state = EmptyDict
    /\ connections = EmptyDict
    /\ used_questions = EmptyDict
    /\ current_questions = EmptyDict
    /\ current_answers = EmptyDict
    /\ current_votes = EmptyDict
    /\ current_voted_player = EmptyDict
    /\ current_vote_counts = EmptyDict
    /\ current_valid_voting = EmptyDict
    /\ current_liar = EmptyDict
    /\ current_diff_points = EmptyDict
    /\ detached = [r \in Rooms |-> <<>>]
    /\ last = Ran("init", 0, "none", "none")
    /\ steps = 0
    /\ snapshot = NoSnapshot
    /\ fanouts = <<>>
    /\ received = [r \in Rooms |-> <<>>]

\* one more handler has run, every send of its broadcast included
Tick == steps < MaxSteps /\ steps' = steps + 1 /\ UNCHANGED <<fanouts, received>>

\* the handler sent no "state" message
NoState == snapshot' = NoSnapshot

JoinRoom == Tick /\ NoState /\ \E r \in Rooms, n \in Names : join_room(r, n)
StartGame == Tick /\ NoState /\ \E r \in Rooms : start_game(r)
ResetApp == Tick /\ NoState /\ reset_app
Connect == Tick /\ \E r \in Rooms, n \in Names : websocket_connect(r, n)
Disconnect == Tick /\ NoState /\ \E r \in Rooms : \E s \in Senders(r) : websocket_disconnect(r, s)
SubmitAnswer ==
    Tick /\ NoState /\ \E r \in Rooms : \E s \in Senders(r) : \E n \in Names, t \in Texts :
        submit_answer(r, s, n, t)
PongStartGame == Tick /\ NoState /\ \E r \in Rooms : \E s \in Senders(r) : pong_start_game(r, s)
StartVotingRequest ==
    Tick /\ NoState /\ \E r \in Rooms : \E s \in Senders(r) : broadcast_start_voting(r, "start_voting_request")
SubmitVote ==
    Tick /\ NoState /\ \E r \in Rooms : \E s \in Senders(r) : \E voter \in Names, target \in Names :
        submit_vote(r, s, voter, target)
ShowPointsRequest == Tick /\ NoState /\ \E r \in Rooms : \E s \in Senders(r) : broadcast_show_points(r, s)
NextRoundRequest ==
    Tick /\ NoState /\ \E r \in Rooms : \E s \in Senders(r) : broadcast_next_round(r, "next_round_request")
VoteAgainRequest ==
    Tick /\ NoState /\ \E r \in Rooms : \E s \in Senders(r) : broadcast_start_voting(r, "vote_again_request")

Next ==
    \/ JoinRoom
    \/ StartGame
    \/ ResetApp
    \/ Connect
    \/ Disconnect
    \/ SubmitAnswer
    \/ PongStartGame
    \/ StartVotingRequest
    \/ SubmitVote
    \/ ShowPointsRequest
    \/ NextRoundRequest
    \/ VoteAgainRequest

Spec == Init /\ [][Next]_vars

\* =================================================================== claims
\* rooms_state.get(room_id)
StateOf(r) == Get(rooms_state, r, None)

\* current_answers.get(room_id, {}) and current_votes.get(room_id, {})
AnswersOf(r) == Get(current_answers, r, EmptyDict)
VotesOf(r) == Get(current_votes, r, EmptyDict)

\* the handler that just ran served message `op` of room r
Served(r, op) == last'.op = op /\ last'.room = r

\* the round data a stale request must not touch
round_data == <<rooms, rooms_state, used_questions, current_questions, current_answers,
                current_votes, current_voted_player, current_vote_counts,
                current_valid_voting, current_liar, current_diff_points>>

(* C1: the answers_submitted broadcast fires only at the step that records the
   answer of the last player still missing while the room is in ANSWER; a
   repeated or late submit_answer does not fire it again. *)
C1_AnswersCompleteFiresOnce ==
    [][\A r \in Rooms :
        (Served(r, "submit_answer") /\ last'.bcast = "answers_submitted")
        => /\ StateOf(r) = "ANSWER"
           /\ DictLen(Get(current_answers', r, EmptyDict)) = DictLen(AnswersOf(r)) + 1
           /\ DOMAIN Get(current_answers', r, EmptyDict) = DOMAIN PlayersOf(r)]_vars

(* C2: the votes_submitted broadcast (the tally) fires only at the step where
   the number of recorded votes first reaches the number of players while the
   room is in VOTING; a repeated or late submit_vote neither runs the tally
   again nor changes the recorded tally result. *)
C2_TallyFiresOnce ==
    [][\A r \in Rooms :
        Served(r, "submit_vote")
        => IF StateOf(r) = "VOTING" /\ DictLen(VotesOf(r)) < DictLen(PlayersOf(r))
           THEN last'.bcast = "votes_submitted"
                => DictLen(Get(current_votes', r, EmptyDict)) = DictLen(PlayersOf(r))
           ELSE /\ last'.bcast = "none"
                /\ UNCHANGED <<rooms_state, current_voted_player, current_vote_counts,
                               current_valid_voting>>]_vars

\* the edges of the documented state machine
Edges ==
    {<<"ROOM", "ANSWER">>, <<"ANSWER", "DISCUSSION">>, <<"DISCUSSION", "VOTING">>,
     <<"VOTING", "VOTING_RESULTS">>, <<"VOTING", "VOTE_AGAIN">>, <<"VOTE_AGAIN", "VOTING">>,
     <<"VOTING_RESULTS", "POINTS">>, <<"POINTS", "ANSWER">>}

(* C3: between two global resets every change of a room's state value is one of
   the documented edges. *)
C3_OnlyDocumentedEdges ==
    [][\A r \in Rooms :
        (/\ last'.op # "reset"
         /\ r \in DOMAIN rooms_state
         /\ r \in DOMAIN rooms_state'
         /\ rooms_state'[r] # rooms_state[r])
        => <<rooms_state[r], rooms_state'[r]>> \in Edges]_vars

\* the state each game action's edge starts from
EdgeState(op) ==
    CASE op = "start_game" -> "ROOM"
      [] op = "submit_answer" -> "ANSWER"
      [] op = "start_voting_request" -> "DISCUSSION"
      [] op = "submit_vote" -> "VOTING"
      [] op = "vote_again_request" -> "VOTE_AGAIN"
      [] op = "show_points_request" -> "VOTING_RESULTS"
      [] op = "next_round_request" -> "POINTS"

GameActions ==
    {"start_game", "submit_answer", "start_voting_request", "submit_vote",
     "vote_again_request", "show_points_request", "next_round_request"}

(* C4: a game action received while the room is not in the state its edge
   starts from is a no-op: no room data changes and nothing is broadcast. *)
C4_StaleActionIsNoOp ==
    [][\A r \in Rooms :
        (/\ last'.room = r
         /\ last'.op \in GameActions
         /\ StateOf(r) # EdgeState(last'.op))
        => (UNCHANGED round_data /\ last'.bcast = "none")]_vars

(* C5: show_points_request processed twice in a row for a round with a liar,
   a vote of every player and a valid tally applies the scoring once: the
   second one changes no score and not the stored delta. *)
C5_ShowPointsIdempotent ==
    [][\A r \in Rooms :
        (/\ last.op = "show_points_request" /\ last.room = r
         /\ Served(r, "show_points_request")
         /\ Get(current_liar, r, None) # None
         /\ DOMAIN VotesOf(r) = DOMAIN PlayersOf(r)
         /\ Get(current_valid_voting, r, FALSE))
        => (rooms' = rooms /\ current_diff_points' = current_diff_points)]_vars

\* the answers of join_room and broadcast_next_round that refuse the request
Rejections ==
    {"Name already taken", "Game already started", "Not enough players",
     "Not enough unused questions"}

(* C6: a join or a round start that fails validation changes none of players,
   state, current answers, current votes, prompt pair, liar, used indexes. *)
C6_RejectedRequestChangesNothing ==
    [][last'.resp \in Rejections
        => UNCHANGED <<rooms, rooms_state, current_answers, current_votes,
                       current_questions, current_liar, used_questions>>]_vars

(* C7: when show_points runs with a recorded liar L and a recorded tally winner
   W (neither is Python's None, which current_liar.get and
   current_voted_player.get return when nothing is recorded), L gains 3 if W # L and 0 if W = L, every other player gains 1 exactly
   when their own recorded vote names L and 0 otherwise, no player is added
   or removed, and the stored delta is new score minus old score per player. *)
C7_ScoringRule ==
    [][\A r \in Rooms :
        (/\ Served(r, "show_points_request")
         /\ Get(current_liar, r, None) # None
         /\ Get(current_voted_player, r, None) # None)
        => /\ r \in DOMAIN rooms
           /\ LET L     == current_liar[r]
                  W     == current_voted_player[r]
                  votes == VotesOf(r)
                  old   == rooms[r]
                  new   == rooms'[r]
              IN  /\ L \in DOMAIN old
                  /\ DOMAIN new = DOMAIN old
                  /\ new[L] = old[L] + (IF W # L THEN 3 ELSE 0)
                  /\ \A p \in (DOMAIN old) \ {L} :
                        new[p] = old[p] + (IF p \in DOMAIN votes /\ votes[p] = L
                                           THEN 1 ELSE 0)
                  /\ current_diff_points'[r] = [p \in DOMAIN old |-> new[p] - old[p]]
                  /\ rooms_state'[r] = "POINTS"]_vars

\* the group missed the liar: the liar has just been given 3 points
C7_Witness ==
    \E r \in DOMAIN current_diff_points :
        /\ last.op = "show_points_request" /\ last.room = r
        /\ StateOf(r) = "POINTS"
        /\ Get(current_liar, r, None) # None
        /\ Get(current_voted_player, r, None) # None
        /\ current_voted_player[r] # current_liar[r]
        /\ current_diff_points[r][current_liar[r]] = 3
        /\ rooms[r][current_liar[r]] = 3

(* C8: when the tally runs, the vote map is complete, the stored counts are the
   number of votes naming each accused player; with exactly one player at the
   maximum the voting is valid, that player is the voted player and the state
   is VOTING_RESULTS; with two or more at the maximum the voting is invalid,
   the state is VOTE_AGAIN and the voted player is left as it was. *)
C8_TallyRule ==
    [][\A r \in Rooms :
        (last'.bcast = "votes_submitted" /\ last'.room = r)
        => LET votes   == current_votes'[r]
               accused == {votes[v] : v \in DOMAIN votes}
               N(p)    == Cardinality({v \in DOMAIN votes : votes[v] = p})
               winners == {p \in accused : \A q \in accused : N(q) <= N(p)}
           IN  /\ DictLen(votes) = DictLen(PlayersOf(r))
               /\ current_vote_counts'[r] = [p \in accused |-> N(p)]
               /\ Cardinality(winners) = 1
                  => /\ current_valid_voting'[r] = TRUE
                     /\ current_voted_player'[r] \in winners
                     /\ rooms_state'[r] = "VOTING_RESULTS"
               /\ Cardinality(winners) >= 2
                  => /\ current_valid_voting'[r] = FALSE
                     /\ rooms_state'[r] = "VOTE_AGAIN"
                     /\ current_voted_player' = current_voted_player]_vars

\* both players of a room of two have just voted for the same player
C8_Witness ==
    \E r \in DOMAIN current_vote_counts :
        /\ last.bcast = "votes_submitted" /\ last.room = r
        /\ DictLen(PlayersOf(r)) = 2
        /\ current_valid_voting[r]
        /\ StateOf(r) = "VOTING_RESULTS"
        /\ current_vote_counts[r][current_voted_player[r]] = 2

\* the list holds valid pool indexes, no index twice, and no more than the pool
C9_WellFormed ==
    \A r \in DOMAIN used_questions :
        LET used == used_questions[r]
        IN  /\ Len(used) <= PoolSize
            /\ \A i \in 1..Len(used) : used[i] \in 0..(PoolSize - 1)
            /\ \A i, j \in 1..Len(used) : i # j => used[i] # used[j]

\* a room's list is kept or extended by the two indexes of the round just started,
\* which differ and were not in it; only reset_app discards a room's list
C9_Grows ==
    \A r \in Rooms :
        /\ (r \in DOMAIN used_questions /\ r \notin DOMAIN used_questions')
           => last'.op = "reset"
        /\ r \in DOMAIN used_questions'
           => LET old == Get(used_questions, r, <<>>)
                  new == used_questions'[r]
                  n   == Len(new)
              IN  \/ new = old
                  \/ /\ n = Len(old) + 2
                     /\ SubSeq(new, 1, Len(old)) = old
                     /\ new[n - 1] # new[n]
                     /\ \A k \in 1..Len(old) : old[k] # new[n - 1] /\ old[k] # new[n]
                     /\ last'.resp = "Game started."
                     /\ current_questions'[r] =
                            [real_question |-> questions_pool[new[n - 1]],
                             fake_question |-> questions_pool[new[n]]]

(* C9: in every room the list of used question indexes has no duplicate, holds
   only valid pool indexes and is never longer than the pool; it only grows, by
   the two distinct, previously unused indexes of each started round, which
   are the indexes of that round's two prompts. *)
C9_UsedIndexes == []C9_WellFormed /\ [][C9_Grows]_vars

\* a round has just started and its two indexes are recorded
C9_Witness ==
    \E r \in DOMAIN used_questions :
        /\ last.resp = "Game started." /\ last.room = r
        /\ Len(used_questions[r]) = 2
        /\ current_questions[r].real_question = questions_pool[used_questions[r][1]]
        /\ current_questions[r].fake_question = questions_pool[used_questions[r][2]]

\* the HTTP and websocket requests that run broadcast_next_round
RoundStarts == {"start_game", "next_round_request"}

(* C10: a round starts (state ANSWER, prompt pair and liar set, used indexes
   grown by two) exactly when the room has at least 2 players and at least 2
   unused prompts; otherwise the start returns an error, the state is left as
   it was and no prompt pair, liar or used index is recorded; nothing but a
   round start moves a room into ANSWER. *)
C10_RoundStartGuard ==
    [][\A r \in Rooms :
        LET players == DOMAIN PlayersOf(r)
            used    == Get(used_questions, r, <<>>)
            unused  == (0..(PoolSize - 1)) \ {used[k] : k \in 1..Len(used)}
            enough  == Cardinality(players) >= 2 /\ Cardinality(unused) >= 2
        IN  /\ (Get(rooms_state', r, None) = "ANSWER" /\ StateOf(r) # "ANSWER")
               => (enough /\ last'.op \in RoundStarts /\ last'.room = r)
            /\ (last'.op \in RoundStarts /\ last'.room = r)
               => IF enough
                  THEN /\ last'.resp = "Game started."
                       /\ Get(rooms_state', r, None) = "ANSWER"
                       /\ r \in DOMAIN current_questions'
                       /\ Get(current_liar', r, None) \in players
                       /\ Len(Get(used_questions', r, <<>>)) = Len(used) + 2
                  ELSE /\ last'.resp \in {"Not enough players", "Not enough unused questions"}
                       /\ UNCHANGED <<rooms_state, current_questions, current_liar,
                                      used_questions>>]_vars

\* a start was refused with two players because one prompt is left unused
C10_Witness ==
    \E r \in DOMAIN used_questions :
        /\ last.op \in RoundStarts /\ last.room = r
        /\ last.resp = "Not enough unused questions"
        /\ DictLen(PlayersOf(r)) >= 2
        /\ Len(used_questions[r]) = PoolSize - 1

\* `new` is `old` without its i-th entry, every other entry kept in its order
WithoutEntry(old, new, i) ==
    new = SubSeq(old, 1, i - 1) \o SubSeq(old, i + 1, Len(old))

(* C11: a disconnect takes exactly the disconnecting websocket out of the list
   it was appended to (the room's list, or the list reset_app dropped, in which
   case the room's list is untouched) and keeps every other entry; in ROOM it
   also deletes the player named by that websocket and nothing else of the
   players; in every other state players, scores, answers, votes, tally
   results, prompt pair, liar, used indexes and the state are unchanged. *)
C11_DisconnectFrame ==
    [][\A r \in Rooms :
        Served(r, "disconnect")
        => LET old == Get(connections, r, <<>>)
               new == Get(connections', r, <<>>)
           IN  \E name \in Names :
                /\ \/ /\ \E i \in 1..Len(old) :
                            old[i].open /\ old[i].name = name /\ WithoutEntry(old, new, i)
                      /\ detached' = detached
                   \/ /\ \E i \in 1..Len(detached[r]) :
                            /\ detached[r][i] = name
                            /\ WithoutEntry(detached[r], detached'[r], i)
                      /\ new = old
                /\ IF StateOf(r) = "ROOM"
                   THEN /\ r \in DOMAIN rooms
                        /\ rooms' = Put(rooms, r, Pop(rooms[r], name))
                   ELSE UNCHANGED round_data]_vars

\* a websocket has just left a started round: both players and the liar remain
C11_Witness ==
    \E r \in DOMAIN current_liar :
        /\ last.op = "disconnect" /\ last.room = r
        /\ StateOf(r) = "ANSWER"
        /\ DictLen(PlayersOf(r)) = 2
        /\ current_liar[r] \in DOMAIN rooms[r]
        /\ Len(connections[r]) = 0
        /\ detached[r] = <<>>

\* the room has no state yet, or is still in ROOM
FreshOrInRoom(r) == StateOf(r) \in {None, "ROOM"}

\* what a join of a name to room r does: accepted exactly for a new name in a
\* fresh room or a room in ROOM, and then adds the name with score 0
JoinRule(r) ==
    \A n \in Names :
        join_room(r, n)
        => IF FreshOrInRoom(r) /\ n \notin DOMAIN PlayersOf(r)
           THEN /\ last'.resp = "room"
                /\ rooms' = Put(rooms, r, Put(PlayersOf(r), n, 0))
                /\ rooms_state' = Put(rooms_state, r, "ROOM")
           ELSE /\ last'.resp \in {"Name already taken", "Game already started"}
                /\ UNCHANGED <<rooms, rooms_state>>

\* the set of player names of room r is the same after the step
SamePlayerNames(r) == DOMAIN Get(rooms', r, EmptyDict) = DOMAIN PlayersOf(r)

(* C12: a join of name n to room r succeeds exactly when the room is fresh
   (no state recorded) or in ROOM and n is not yet a player of r; a successful
   join adds n with score 0, keeps the other players and their scores and
   leaves the room in ROOM; a refused join changes neither players nor state;
   and once the room has left ROOM its set of player names stays the same
   under every request but the global reset. *)
C12_JoinAndFixedPlayers ==
    [][\A r \in Rooms :
        /\ JoinRule(r)
        /\ (~FreshOrInRoom(r) /\ last'.op # "reset") => SamePlayerNames(r)]_vars

\* the part about joins and connects alone, which every step satisfies: the
\* names are added to a room that left ROOM by show_points_request
JoinAndConnectAddNoName ==
    [][\A r \in Rooms :
        /\ JoinRule(r)
        /\ (~FreshOrInRoom(r) /\ last'.op \in {"join", "connect"})
           => SamePlayerNames(r)]_vars

\* the states in which the last tally is part of the snapshot
TallyStates == {"VOTING_RESULTS", "VOTE_AGAIN", "POINTS"}

(* C13: the "state" message sent to a websocket that connects to a room not in
   ROOM shows the room as it is at that moment: its state field is the room's
   state; already_voted is true exactly when the viewer has a vote recorded,
   and your_vote is then that vote (likewise already_answered and
   your_answer); votes_count and valid_voting are present exactly in
   VOTING_RESULTS, VOTE_AGAIN and POINTS and carry the stored tally; points,
   liar and diff are present exactly in POINTS and carry the score map, the
   liar and the last score delta. *)
C13_SnapshotReflectsRoom ==
    [][\A r \in Rooms :
        (Served(r, "connect") /\ last'.resp = "state")
        => LET snap    == snapshot'
               viewer  == connections'[r][Len(connections'[r])].name
               votes   == Get(current_votes', r, EmptyDict)
               answers == Get(current_answers', r, EmptyDict)
               state   == Get(rooms_state', r, None)
           IN  /\ state # "ROOM"
               /\ snap.state = state
               /\ snap.already_voted = (viewer \in DOMAIN votes)
               /\ viewer \in DOMAIN votes => snap.your_vote = votes[viewer]
               /\ snap.already_answered = (viewer \in DOMAIN answers)
               /\ viewer \in DOMAIN answers => snap.your_answer = answers[viewer]
               /\ {"votes_count", "valid_voting"} \cap DOMAIN snap =
                      IF state \in TallyStates THEN {"votes_count", "valid_voting"} ELSE {}
               /\ state \in TallyStates
                  => /\ snap.votes_count = Get(current_vote_counts', r, EmptyDict)
                     /\ snap.valid_voting = Get(current_valid_voting', r, FALSE)
               /\ {"points", "liar", "diff"} \cap DOMAIN snap =
                      IF state = "POINTS" THEN {"points", "liar", "diff"} ELSE {}
               /\ state = "POINTS"
                  => /\ snap.points = Get(rooms', r, EmptyDict)
                     /\ snap.liar = Get(current_liar', r, None)
                     /\ snap.diff = Get(current_diff_points', r, EmptyDict)]_vars

\* a player who voted came back during VOTING and was sent their vote
C13_Witness ==
    \E r \in DOMAIN current_votes :
        /\ last.op = "connect" /\ last.room = r /\ last.resp = "state"
        /\ snapshot # NoSnapshot
        /\ snapshot.state = "VOTING"
        /\ snapshot.already_voted
        /\ snapshot.your_vote \in DOMAIN rooms[r]
        /\ "votes_count" \notin DOMAIN snapshot

\* every registry is empty
AllCleared ==
    /\ rooms = EmptyDict /\ rooms_state = EmptyDict /\ used_questions = EmptyDict
    /\ current_questions = EmptyDict /\ current_answers = EmptyDict
    /\ current_votes = EmptyDict /\ current_voted_player = EmptyDict
    /\ current_vote_counts = EmptyDict /\ current_valid_voting = EmptyDict
    /\ current_liar = EmptyDict /\ current_diff_points = EmptyDict

(* C14: when reset_app returns, no room has players, a state, used indexes or
   round data; and from then on a join to a room that has had no join since
   the reset is accepted as a join to a fresh room (the name becomes its only
   player, with score 0, in state ROOM), whatever the websockets opened before
   the reset have sent in between. *)
C14_ResetLeavesFreshRooms ==
    [][/\ last'.op = "reset" => AllCleared'
       /\ \A r \in Rooms, n \in Names :
            (join_room(r, n) /\ r \notin DOMAIN rooms)
            => /\ last'.resp = "room"
               /\ rooms' = Put(rooms, r, Put(EmptyDict, n, 0))
               /\ rooms_state' = Put(rooms_state, r, "ROOM")]_vars

\* the first part alone, which the code satisfies: reset_app leaves nothing
ResetClearsAll == [][last'.op = "reset" => AllCleared']_vars

(* C15: a "state" message built while the room is in ANSWER does not carry the
   round's real prompt to the liar: the liar's your_question is the fake
   prompt and the real_question field is not the real prompt; the real prompt
   goes to the liar only from DISCUSSION on. *)
C15_RealPromptNotLeaked ==
    [][\A r \in Rooms :
        (/\ Served(r, "connect") /\ last'.resp = "state"
         /\ StateOf(r) = "ANSWER"
         /\ connections'[r][Len(connections'[r])].name = Get(current_liar, r, None))
        => /\ snapshot'.your_question = current_questions[r].fake_question
           /\ snapshot'.real_question # current_questions[r].real_question]_vars

(* C16: vote_again_request served while the room is in VOTE_AGAIN puts the room
   in VOTING and leaves it without recorded votes, and changes none of the
   prompt pair, the liar, the current answers, the players and their scores,
   the used indexes. *)
C16_VoteAgainFrame ==
    [][\A r \in Rooms :
        (Served(r, "vote_again_request") /\ StateOf(r) = "VOTE_AGAIN")
        => /\ Get(rooms_state', r, None) = "VOTING"
           /\ Get(current_votes', r, EmptyDict) = EmptyDict
           /\ UNCHANGED <<current_questions, current_liar, current_answers, rooms,
                          used_questions>>]_vars

\* a tied vote of a started round has just been opened again
C16_Witness ==
    \E r \in DOMAIN current_valid_voting :
        /\ last.op = "vote_again_request" /\ last.room = r
        /\ StateOf(r) = "VOTING"
        /\ current_valid_voting[r] = FALSE
        /\ DictLen(current_vote_counts[r]) = 2
        /\ r \in DOMAIN current_liar
        /\ VotesOf(r) = EmptyDict

(* C17: a room in ANSWER has fewer recorded answers than players and a room in
   VOTING has fewer recorded votes than players: no room rests in ANSWER or
   VOTING with a complete answer or vote map. *)
C17_CompletionNeverMissed ==
    \A r \in DOMAIN rooms_state :
        /\ rooms_state[r] = "ANSWER" => DictLen(AnswersOf(r)) < DictLen(PlayersOf(r))
        /\ rooms_state[r] = "VOTING" => DictLen(VotesOf(r)) < DictLen(PlayersOf(r))

\* the same for the rooms that have a player: this holds in every state
CompletionNeverMissedWithPlayers ==
    \A r \in DOMAIN rooms_state :
        DictLen(PlayersOf(r)) > 0
        => /\ rooms_state[r] = "ANSWER" => DictLen(AnswersOf(r)) < DictLen(PlayersOf(r))
           /\ rooms_state[r] = "VOTING" => DictLen(VotesOf(r)) < DictLen(PlayersOf(r))

\* the indexes of the pool's prompts
PoolIndexes == 0..(PoolSize - 1)

(* C18: every room whose state is not ROOM has a current prompt pair, made of
   the prompts of two different pool indexes, and a current liar who is one of
   the room's players. *)
C18_StartedRoomHasRound ==
    \A r \in DOMAIN rooms_state :
        rooms_state[r] # "ROOM"
        => /\ r \in DOMAIN current_questions
           /\ \E i, j \in PoolIndexes :
                /\ i # j
                /\ current_questions[r].real_question = questions_pool[i]
                /\ current_questions[r].fake_question = questions_pool[j]
           /\ r \in DOMAIN current_liar
           /\ current_liar[r] \in DOMAIN PlayersOf(r)

\* the same for the rooms that a round start has put in their state: it holds
\* whenever the room has a prompt pair
RoundDataOfStartedRound ==
    \A r \in DOMAIN current_questions :
        /\ \E i, j \in PoolIndexes :
             /\ i # j
             /\ current_questions[r].real_question = questions_pool[i]
             /\ current_questions[r].fake_question = questions_pool[j]
        /\ r \in DOMAIN current_liar
        /\ current_liar[r] \in DOMAIN PlayersOf(r)

\* the scores of room r before and after the step
ScoresBefore(r) == PlayersOf(r)
ScoresAfter(r) == Get(rooms', r, EmptyDict)

(* C19: under every request but the global reset no player's score goes down;
   and one show_points_request changes the score of the liar by 0 or 3 and the
   score of every other player by 0 or 1. *)
C19_ScoresNeverDecrease ==
    [][\A r \in Rooms :
        last'.op # "reset"
        => /\ \A p \in (DOMAIN ScoresBefore(r)) \cap (DOMAIN ScoresAfter(r)) :
                ScoresAfter(r)[p] >= ScoresBefore(r)[p]
           /\ Served(r, "show_points_request")
              => \A p \in DOMAIN ScoresAfter(r) :
                    LET delta == ScoresAfter(r)[p] - Get(ScoresBefore(r), p, 0)
                    IN  IF p = Get(current_liar, r, None)
                        THEN delta \in {0, 3}
                        ELSE delta \in {0, 1}]_vars

\* the group has just caught the liar: the liar gained 0, the other player 1
C19_Witness ==
    \E r \in (DOMAIN current_diff_points) \cap (DOMAIN current_liar) \cap (DOMAIN rooms) :
        /\ last.op = "show_points_request" /\ last.room = r
        /\ current_liar[r] \in DOMAIN rooms[r]
        /\ Get(current_voted_player, r, None) = current_liar[r]
        /\ current_diff_points[r][current_liar[r]] = 0
        /\ \E p \in DOMAIN rooms[r] :
              p # current_liar[r] /\ current_diff_points[r][p] = 1 /\ rooms[r][p] = 1

\* ============================================== broadcasts with suspension
(* Every broadcast of main.py is a loop `for ws in get_connection_list(...):
   await ws.send_json(message)` entered after the handler's changes to the
   registries.  Each await is a point where the event loop may run another
   handler.  Below, a handler's step makes its changes and its first send; the
   remaining sends are steps of their own, between which other handlers run.
   The room is a started round of two players with both websockets open, and
   no client joins, connects, disconnects or resets meanwhile. *)

\* ws.send_json(message) inside try/except: a closed websocket gets nothing
Sent(rcv, r, i, note) ==
    IF connections[r][i].open THEN [rcv EXCEPT ![r][i] = Append(@, note)] ELSE rcv

\* the handler enters its broadcast loop over a copy of the room's list: the
\* first send is made at once, the others are left to do
Begin(r, owner) ==
    LET to   == [i \in 1..Len(Get(connections', r, <<>>)) |-> i]
        note == [id |-> steps', msg |-> last'.bcast]
    IN  IF last'.bcast = "none" \/ to = <<>>
        THEN UNCHANGED <<fanouts, received>>
        ELSE /\ received' = Sent(received, r, Head(to), note)
             /\ fanouts' = IF Tail(to) = <<>>
                           THEN fanouts
                           ELSE Append(fanouts, [room |-> r, note |-> note,
                                                 to |-> Tail(to), owner |-> owner])

\* the loop of a suspended broadcast resumes for one more send
SendNext ==
    \E k \in 1..Len(fanouts) :
        LET f == fanouts[k]
        IN  /\ received' = Sent(received, f.room, Head(f.to), f.note)
            /\ fanouts' = IF Tail(f.to) = <<>>
                          THEN RemoveAt(fanouts, k)
                          ELSE [fanouts EXCEPT ![k].to = Tail(f.to)]
            /\ UNCHANGED <<dicts, detached, last, steps, snapshot>>

\* the handlers waiting in receive_json: those not inside a broadcast loop
FreeSenders(r) ==
    {s \in Senders(r) : \A k \in 1..Len(fanouts) : fanouts[k].owner # s}

\* the handler of a POST request
HttpHandler == <<"http", 0>>

\* room 1 after join(a), join(b), the two websocket connects and start_game
InitFanout ==
    \E pair \in SamplePairs(AvailableIndexes(<<>>)), odd_player \in Names :
        /\ rooms = Put(EmptyDict, 1, Put(Put(EmptyDict, "a", 0), "b", 0))
        /\ rooms_state = Put(EmptyDict, 1, "ANSWER")
        /\ connections = Put(EmptyDict, 1, <<[name |-> "a", open |-> TRUE],
                                             [name |-> "b", open |-> TRUE]>>)
        /\ used_questions = Put(EmptyDict, 1, UsedAfter(<<>>, pair[1], pair[2]))
        /\ current_questions = Put(EmptyDict, 1,
               [real_question |-> questions_pool[pair[1]],
                fake_question |-> questions_pool[pair[2]]])
        /\ current_liar = Put(EmptyDict, 1, odd_player)
        /\ current_answers = EmptyDict
        /\ current_votes = EmptyDict
        /\ current_voted_player = EmptyDict
        /\ current_vote_counts = EmptyDict
        /\ current_valid_voting = EmptyDict
        /\ current_diff_points = EmptyDict
        /\ detached = [r \in Rooms |-> <<>>]
        /\ last = Ran("start_game", 1, "ping_start_game", "Game started.")
        /\ steps = 0
        /\ snapshot = NoSnapshot
        /\ fanouts = <<>>
        /\ received = [r \in Rooms |-> <<<<>>, <<>>>>]

\* one more handler has started
HandlerStarts == steps < MaxHandlers /\ steps' = steps + 1 /\ NoState

OnStartGame == HandlerStarts /\ \E r \in Rooms : start_game(r) /\ Begin(r, HttpHandler)
OnSubmitAnswer ==
    HandlerStarts /\ \E r \in Rooms : \E s \in FreeSenders(r) : \E n \in Names, t \in Texts :
        submit_answer(r, s, n, t) /\ Begin(r, s)
OnPongStartGame ==
    HandlerStarts /\ \E r \in Rooms : \E s \in FreeSenders(r) :
        pong_start_game(r, s) /\ Begin(r, s)
OnStartVotingRequest ==
    HandlerStarts /\ \E r \in Rooms : \E s \in FreeSenders(r) :
        broadcast_start_voting(r, "start_voting_request") /\ Begin(r, s)
OnSubmitVote ==
    HandlerStarts /\ \E r \in Rooms : \E s \in FreeSenders(r) :
        \E voter \in Names, target \in Names :
            submit_vote(r, s, voter, target) /\ Begin(r, s)
OnShowPointsRequest ==
    HandlerStarts /\ \E r \in Rooms : \E s \in FreeSenders(r) :
        broadcast_show_points(r, s) /\ Begin(r, s)
OnNextRoundRequest ==
    HandlerStarts /\ \E r \in Rooms : \E s \in FreeSenders(r) :
        broadcast_next_round(r, "next_round_request") /\ Begin(r, s)
OnVoteAgainRequest ==
    HandlerStarts /\ \E r \in Rooms : \E s \in FreeSenders(r) :
        broadcast_start_voting(r, "vote_again_request") /\ Begin(r, s)

NextFanout ==
    \/ OnStartGame
    \/ OnSubmitAnswer
    \/ OnPongStartGame
    \/ OnStartVotingRequest
    \/ OnSubmitVote
    \/ OnShowPointsRequest
    \/ OnNextRoundRequest
    \/ OnVoteAgainRequest
    \/ SendNext

SpecFanout == InitFanout /\ [][NextFanout]_vars

(* C20: every websocket receives the broadcasts of its room in the order in
   which the handlers made the transitions they announce: when a handler is
   suspended inside its broadcast loop and another handler makes the next
   transition, no websocket gets the later broadcast before the earlier. *)
C20_NotificationsInOrder ==
    \A r \in Rooms : \A c \in 1..Len(received[r]) :
        \A i, j \in 1..Len(received[r][c]) :
            i < j => received[r][c][i].id < received[r][c][j].id

====
